---- MODULE Spec2Model ----
(***************************************************************************)
(* State-machine model of the MeksTaskManager web client: the AuthProvider *)
(* session context, the Login and SignUp forms, the Dashboard with its     *)
(* NewTask popup, the axios request layer and the browser's localStorage,  *)
(* timers and page lifecycle.                                              *)
(***************************************************************************)
EXTENDS Integers, Sequences, FiniteSets

\* ------------------------------------------------------------------ bounds
MaxPending == 2   \* requests in flight at once
MaxTimers == 2    \* setTimeout callbacks pending at once
MaxClock == 2     \* readings of Date.now() (abstract milliseconds)
MaxTasks == 2     \* length of a task list (in memory or persisted)
MaxFormPending == 1   \* requests in flight at once, where the forms are checked
MaxFormTimers == 1    \* pending timers at once, where the forms are checked

\* --------------------------------------------------------- JavaScript values
\* A JavaScript value is null, undefined, a number or a string (a sequence of
\* one-character strings, so that quoting and trimming can be computed).
Null == [t |-> "null"]
Undefined == [t |-> "undef"]
Num(n) == [t |-> "num", n |-> n]
Str(s) == [t |-> "str", s |-> s]

\* JavaScript truthiness, as `if (x)`, `x && y`, `x || y` evaluate it.
Truthy(v) ==
  CASE v.t = "null" -> FALSE
    [] v.t = "undef" -> FALSE
    [] v.t = "num" -> v.n # 0
    [] v.t = "str" -> v.s # <<>>

DigitChar(d) == <<"0", "1", "2", "3", "4", "5", "6", "7", "8", "9">>[d + 1]

RECURSIVE Digits(_)
\* The decimal numeral of a natural number.
Digits(n) == IF n < 10 THEN <<DigitChar(n)>> ELSE Digits(n \div 10) \o <<DigitChar(n % 10)>>

DigitValue(c) == CHOOSE d \in 0..9 : DigitChar(d) = c

RECURSIVE NumeralValue(_)
\* The natural number a decimal numeral denotes.
NumeralValue(s) ==
  IF Len(s) = 1 THEN DigitValue(s[1])
  ELSE 10 * NumeralValue(SubSeq(s, 1, Len(s) - 1)) + DigitValue(s[Len(s)])

RECURSIVE Escape(_)
\* The body of a JSON string literal: quotes and backslashes are escaped.
Escape(s) ==
  IF s = <<>> THEN <<>>
  ELSE (IF Head(s) \in {"\"", "\\"} THEN <<"\\", Head(s)>> ELSE <<Head(s)>>) \o Escape(Tail(s))

RECURSIVE Unescape(_)
\* The string a JSON string-literal body denotes.
Unescape(s) ==
  IF s = <<>> THEN <<>>
  ELSE IF Head(s) = "\\" /\ Len(s) >= 2 THEN <<s[2]>> \o Unescape(Tail(Tail(s)))
  ELSE <<Head(s)>> \o Unescape(Tail(s))

\* JSON.stringify of a primitive: a number gives its numeral, a string its quoted
\* literal, null gives "null", undefined gives undefined (no text at all).
JSONstringify(v) ==
  CASE v.t = "num" -> Str(Digits(v.n))
    [] v.t = "str" -> Str(<<"\"">> \o Escape(v.s) \o <<"\"">>)
    [] v.t = "null" -> Str(<<"n", "u", "l", "l">>)
    [] v.t = "undef" -> Undefined

\* JSON.parse of the text of a primitive.
JSONparse(s) ==
  IF s = <<"n", "u", "l", "l">> THEN Null
  ELSE IF Head(s) = "\"" THEN Str(Unescape(SubSeq(s, 2, Len(s) - 1)))
  ELSE Num(NumeralValue(s))

\* String(v): the coercion localStorage.setItem applies to the value it is given.
StringOf(v) ==
  CASE v.t = "str" -> v.s
    [] v.t = "num" -> Digits(v.n)
    [] v.t = "null" -> <<"n", "u", "l", "l">>
    [] v.t = "undef" -> <<"u", "n", "d", "e", "f", "i", "n", "e", "d">>

IsSpace(c) == c \in {" "}

RECURSIVE TrimStart(_)
TrimStart(s) == IF s # <<>> /\ IsSpace(Head(s)) THEN TrimStart(Tail(s)) ELSE s

RECURSIVE TrimEnd(_)
TrimEnd(s) == IF s # <<>> /\ IsSpace(s[Len(s)]) THEN TrimEnd(SubSeq(s, 1, Len(s) - 1)) ELSE s

\* String.prototype.trim
Trim(s) == TrimEnd(TrimStart(s))

\* ------------------------------------------------------------------- state
VARIABLES
  running,       \* the page is loaded (between a load and the next unload)
  route,         \* the route react-router displays
  localStorage,  \* window.localStorage: the keys userId, token, temp_unsaved_tasks
  authProvider,  \* AuthProvider's state: userId, token
  loginReturn,   \* the value the last call of AuthProvider.login returned
  loginForm,     \* Login's state: loginData, isError, isSuccess, resultText
  signUpForm,    \* SignUp's state: newData, confirmPassword, isError, isSuccess, resultText
  dashboard,     \* Dashboard's state: userData, isOpen, message
  newTask,       \* NewTask's state: taskData
  pending,       \* the requests in flight, in the order they were issued
  timers,        \* the setTimeout callbacks pending, in the order they were set
  clock          \* the reading of Date.now()

vars == <<running, route, localStorage, authProvider, loginReturn, loginForm,
          signUpForm, dashboard, newTask, pending, timers, clock>>

Routes == {"/", "/auth/sign-up", "/auth/login"}

\* -------------------------------------------------------------- components
AuthProviderInit == [userId |-> Null, token |-> Str(<<>>)]

NoReturn == [status |-> 0, message |-> ""]
LoginInit ==
  [loginData |-> [username |-> <<>>, password |-> <<>>],
   isError |-> FALSE, isSuccess |-> FALSE, resultText |-> ""]

SignUpInit ==
  [newData |-> [username |-> <<>>, email |-> <<>>, password |-> <<>>],
   confirmPassword |-> <<>>,
   isError |-> FALSE, isSuccess |-> FALSE, resultText |-> ""]

NoMessage == [text |-> "", isError |-> FALSE]

DashboardInit ==
  [userData |-> [username |-> "", memberSince |-> "", profileImage |-> "null", tasks |-> <<>>],
   isOpen |-> FALSE,
   message |-> NoMessage]

chMedium == <<"m", "e", "d", "i", "u", "m">>
chHigh == <<"h", "i", "g", "h">>

NewTaskInit ==
  [taskData |-> [title |-> Str(<<>>), description |-> Str(<<>>),
                 dueDate |-> Str(<<>>), priority |-> Str(chMedium)]]

\* The placeholder profile loadData falls back to.
PlaceholderProfile(prev) ==
  [prev EXCEPT !.username = "Unknown User", !.memberSince = "9999",
               !.profileImage = "AppIcon", !.tasks = <<>>]

\* ------------------------------------------------- requests, timers, routing
\* A request in flight: which call issued it, for which caller, the userId the
\* calling handler closed over (where it reads it after the await), and whether
\* the component whose handler awaits
\* it is still mounted (a state setter of an unmounted component does nothing).
Request(kind, caller, userId) ==
  [kind |-> kind, caller |-> caller, userId |-> userId, live |-> TRUE]

\* A pending setTimeout callback: which callback, its delay in ms, the clock
\* reading when it was set, and whether its component is still mounted.
Timer(kind, delay) == [kind |-> kind, delay |-> delay, at |-> clock, live |-> TRUE]

\* The route whose component owns a request or a timer.
OwnerRoute(x) ==
  CASE x.kind \in {"task", "profile", "taskDone", "taskFail"} -> "/"
    [] x.kind \in {"signup", "signUpSuccess", "signUpError"} -> "/auth/sign-up"
    [] x.kind \in {"loginSuccess", "loginError"} -> "/auth/login"
    [] x.kind = "login" -> (IF x.caller = "form" THEN "/auth/login" ELSE "none")

Orphan(seq, r) ==
  [i \in DOMAIN seq |-> IF OwnerRoute(seq[i]) = r THEN [seq[i] EXCEPT !.live = FALSE] ELSE seq[i]]

RemoveAt(seq, i) == SubSeq(seq, 1, i - 1) \o SubSeq(seq, i + 1, Len(seq))

\* The state of the mounted components, the requests and the timers, as one
\* value the handlers below transform.
View ==
  [route |-> route, loginForm |-> loginForm, signUpForm |-> signUpForm,
   dashboard |-> dashboard, newTask |-> newTask, pending |-> pending, timers |-> timers]

SetView(v) ==
  /\ route' = v.route
  /\ loginForm' = v.loginForm
  /\ signUpForm' = v.signUpForm
  /\ dashboard' = v.dashboard
  /\ newTask' = v.newTask
  /\ pending' = v.pending
  /\ timers' = v.timers
  /\ Len(v.pending) <= MaxPending
  /\ Len(v.timers) <= MaxTimers

\* Dashboard's "load tasks on mount" effect, run with the userId of the render.
loadData(v, userId) ==
  IF Truthy(userId)
  THEN [v EXCEPT !.pending = Append(@, Request("profile", "dashboard", userId))]
  ELSE [v EXCEPT !.dashboard.userData = PlaceholderProfile(@)]

\* The effect runs again when the userId the context provides changes while the
\* Dashboard is mounted.
UserIdChanged(v, old, new) ==
  IF v.route = "/" /\ old # new THEN loadData(v, new) ELSE v

\* react-router shows route r: the component of the old route unmounts (its
\* state is lost, its requests and timers stay), the one of r mounts.
Navigate(v, r, userId) ==
  IF r = v.route THEN v
  ELSE LET u == [v EXCEPT !.route = r,
                          !.loginForm = LoginInit,
                          !.signUpForm = SignUpInit,
                          !.dashboard = DashboardInit,
                          !.newTask = NewTaskInit,
                          !.pending = Orphan(@, v.route),
                          !.timers = Orphan(@, v.route)]
       IN IF r = "/" THEN loadData(u, userId) ELSE u

\* ---------------------------------------------------------- session manager
\* getData without the check of the token.
getDataUserIdOnly(ls, auth) ==
  IF Truthy(ls.userId)
  THEN [userId |-> JSONstringify(ls.userId), token |-> ls.token]
  ELSE auth

\* AuthProvider's rehydration effect.
getData(ls, auth) ==
  IF Truthy(ls.userId) /\ Truthy(ls.token)
  THEN [userId |-> JSONstringify(ls.userId), token |-> ls.token]
  ELSE auth

\* login's guard on its argument.
PostDataAbsent(postData) == postData.t = "null"

\* login storing the session of every response that resolves, whatever its status.
loginSettledAnyStatus(o, ls, auth) ==
  IF o.resolved
  THEN [localStorage |-> [ls EXCEPT !.userId = Str(StringOf(JSONstringify(o.userId))),
                                    !.token = Str(StringOf(o.token))],
        authProvider |-> [userId |-> o.userId, token |-> o.token],
        ret |-> [status |-> o.status, message |-> o.message]]
  ELSE [localStorage |-> ls, authProvider |-> auth,
        ret |-> [status |-> IF o.hasResponse /\ o.status # 0 THEN o.status ELSE 500,
                 message |-> IF o.hasResponse /\ o.message # "" THEN o.message
                             ELSE "An error occurred during login"]]

\* login after its request settled with outcome o: the new localStorage, the
\* new AuthProvider state and the value login returns.
loginSettled(o, ls, auth) ==
  IF o.resolved
  THEN IF o.status = 200
       THEN [localStorage |-> [ls EXCEPT !.userId = Str(StringOf(JSONstringify(o.userId))),
                                         !.token = Str(StringOf(o.token))],
             authProvider |-> [userId |-> o.userId, token |-> o.token],
             ret |-> [status |-> o.status, message |-> o.message]]
       ELSE [localStorage |-> ls, authProvider |-> auth,
             ret |-> [status |-> o.status,
                      message |-> IF o.message # "" THEN o.message ELSE "Unknown response"]]
  ELSE [localStorage |-> ls, authProvider |-> auth,
        ret |-> [status |-> IF o.hasResponse /\ o.status # 0 THEN o.status ELSE 500,
                 message |-> IF o.hasResponse /\ o.message # "" THEN o.message
                             ELSE "An error occurred during login"]]

\* logout
logout(ls) ==
  [localStorage |-> [ls EXCEPT !.userId = Null, !.token = Null],
   authProvider |-> [userId |-> Null, token |-> Str(<<>>)],
   ret |-> [status |-> 201, message |-> "User Logged Out Successfully"]]

\* --------------------------------------------------------- server outcomes
\* How a request ends: the promise resolves with a response (axios resolves
\* 2xx statuses), or rejects with the response of another status, or rejects
\* without a response (network failure). message "" stands for no message.
Outcome(resolved, hasResponse, status, userId, token, message) ==
  [resolved |-> resolved, hasResponse |-> hasResponse, status |-> status,
   userId |-> userId, token |-> token, message |-> message]

UserIds == {Num(7)}
Tokens == {Str(<<"t">>)}

\* The outcomes of POST /auth/login the interface describes:
\* 200 {userId, token, message} | error {message}.
LoginOutcomesWellFormed ==
  {Outcome(TRUE, TRUE, 200, u, t, "Login successful") : u \in UserIds, t \in Tokens}
    \cup {Outcome(TRUE, TRUE, 204, Undefined, Undefined, "")}
    \cup {Outcome(FALSE, TRUE, st, Undefined, Undefined, m) :
            st \in {401, 500}, m \in {"", "Invalid credentials"}}
    \cup {Outcome(FALSE, FALSE, 0, Undefined, Undefined, "")}

\* A 200 response whose body lacks the userId or the token.
LoginOutcomesMalformed ==
  {Outcome(TRUE, TRUE, 200, u, t, "Login successful") :
     u \in UserIds \cup {Undefined}, t \in Tokens \cup {Undefined}}
    \ LoginOutcomesWellFormed

LoginOutcomes == LoginOutcomesWellFormed \cup LoginOutcomesMalformed

\* -------------------------------------------------------------- Login form
\* Login.handleErrorSuccess; mounted says whether Login is still mounted when
\* it runs (the timer is set either way).
LoginHandleErrorSuccess(v, message, error, mounted) ==
  IF ~error
  THEN [v EXCEPT !.loginForm = IF mounted
                               THEN [@ EXCEPT !.resultText = message, !.isSuccess = TRUE]
                               ELSE @,
                 !.timers = Append(@, [Timer("loginSuccess", 3000) EXCEPT !.live = mounted])]
  ELSE [v EXCEPT !.loginForm = IF mounted
                               THEN [@ EXCEPT !.resultText = message, !.isError = TRUE]
                               ELSE @,
                 !.timers = Append(@, [Timer("loginError", 5000) EXCEPT !.live = mounted])]

\* The required-field check without trim().
LoginInputsMissingUntrimmed(loginData) ==
  loginData.username = <<>> \/ loginData.password = <<>>

\* Login.handleSubmit's required-field check.
LoginInputsMissing(loginData) ==
  Trim(loginData.username) = <<>> \/ Trim(loginData.password) = <<>>

\* Login.handleSubmit from the value login returned on. The object login
\* returns has the fields status and message only: reading response.data.message
\* throws a TypeError, which the catch block reports.
LoginHandleResponse(v, response, mounted) ==
  LET caught == LoginHandleErrorSuccess(v, "An error occurred during signup", TRUE, mounted)
  IN IF response.status = 200
     THEN IF "data" \in DOMAIN response
          THEN LoginHandleErrorSuccess(v, response.data.message, FALSE, mounted)
          ELSE caught
     ELSE IF response.status = 500
     THEN LoginHandleErrorSuccess(v, response.message, TRUE, mounted)
     ELSE IF "data" \in DOMAIN response
          THEN LoginHandleErrorSuccess(v, response.data.message, TRUE, mounted)
          ELSE caught

\* The object a form passes to a call.
Obj(fields) == [t |-> "obj", v |-> fields]

\* login's validation failure.
InvalidPostData == [status |-> 404, message |-> "ValueError: Invalid PostData Values"]

\* Login.handleChange
LoginHandleChange(name, value) ==
  /\ running /\ route = "/auth/login"
  /\ loginForm.loginData[name] # value
  /\ loginForm' = [loginForm EXCEPT !.loginData[name] = value]
  /\ UNCHANGED <<running, route, localStorage, authProvider, loginReturn, signUpForm,
                 dashboard, newTask, pending, timers, clock>>

\* Login.handleSubmit up to the await of login.
LoginHandleSubmit ==
  /\ running /\ route = "/auth/login"
  /\ IF LoginInputsMissing(loginForm.loginData)
     THEN /\ SetView(LoginHandleErrorSuccess(View, "All Inputs Are Required!", TRUE, TRUE))
          /\ UNCHANGED loginReturn
     ELSE IF PostDataAbsent(Obj(loginForm.loginData))
     THEN /\ loginReturn' = InvalidPostData
          /\ SetView(LoginHandleResponse(View, InvalidPostData, TRUE))
     ELSE /\ SetView([View EXCEPT
                        !.pending = Append(@, Request("login", "form", Null))])
          /\ UNCHANGED loginReturn
  /\ UNCHANGED <<running, localStorage, authProvider, clock>>

\* The Cancel button of the Login form.
LoginCancel ==
  /\ running /\ route = "/auth/login"
  /\ SetView(Navigate(View, "/", authProvider.userId))
  /\ UNCHANGED <<running, localStorage, authProvider, loginReturn, clock>>

\* The request of a login call settles: login runs to its return and, when
\* the Login form made the call, handleSubmit continues from its await.
LoginSettle(i, o) ==
  /\ running
  /\ i \in DOMAIN pending /\ pending[i].kind = "login"
  /\ LET r == loginSettled(o, localStorage, authProvider)
         v1 == [View EXCEPT !.pending = RemoveAt(@, i)]
         v2 == UserIdChanged(v1, authProvider.userId, r.authProvider.userId)
         v3 == IF pending[i].caller = "form"
               THEN LoginHandleResponse(v2, r.ret, pending[i].live)
               ELSE v2
     IN /\ localStorage' = r.localStorage
        /\ authProvider' = r.authProvider
        /\ loginReturn' = r.ret
        /\ SetView(v3)
  /\ UNCHANGED <<running, clock>>

\* A consumer of the context calls login(postData).
CallLogin(postData) ==
  /\ running
  /\ IF PostDataAbsent(postData)
     THEN /\ loginReturn' = InvalidPostData
          /\ UNCHANGED <<pending>>
     ELSE /\ Len(pending) < MaxPending
          /\ pending' = Append(pending, Request("login", "consumer", Null))
          /\ UNCHANGED loginReturn
  /\ UNCHANGED <<running, route, localStorage, authProvider, loginForm, signUpForm,
                 dashboard, newTask, timers, clock>>

\* A consumer of the context calls logout().
CallLogout ==
  /\ running
  /\ LET r == logout(localStorage)
     IN /\ localStorage' = r.localStorage
        /\ authProvider' = r.authProvider
        /\ SetView(UserIdChanged(View, authProvider.userId, r.authProvider.userId))
  /\ UNCHANGED <<running, loginReturn, clock>>

\* ------------------------------------------------------------- SignUp form
\* SignUp.handleErrorSuccess
SignUpHandleErrorSuccess(v, message, error, mounted) ==
  IF ~error
  THEN [v EXCEPT !.signUpForm = IF mounted
                                THEN [@ EXCEPT !.resultText = message, !.isSuccess = TRUE]
                                ELSE @,
                 !.timers = Append(@, [Timer("signUpSuccess", 3000) EXCEPT !.live = mounted])]
  ELSE [v EXCEPT !.signUpForm = IF mounted
                                THEN [@ EXCEPT !.resultText = message, !.isError = TRUE]
                                ELSE @,
                 !.timers = Append(@, [Timer("signUpError", 5000) EXCEPT !.live = mounted])]

\* SignUp.handleSubmit's required-field check.
SignUpInputsMissing(newData, confirmPassword) ==
  \/ Trim(newData.username) = <<>>
  \/ Trim(newData.email) = <<>>
  \/ Trim(newData.password) = <<>>
  \/ Trim(confirmPassword) = <<>>

\* SignUp.handleSubmit's password confirmation check.
SignUpPasswordsDiffer(newData, confirmPassword) == newData.password # confirmPassword

\* The outcomes of POST /auth/sign-up.
SignUpOutcomes ==
  {Outcome(TRUE, TRUE, st, Undefined, Undefined, m) :
     st \in {200, 201}, m \in {"Account created"}}
    \cup {Outcome(FALSE, TRUE, st, Undefined, Undefined, m) :
            st \in {409, 500}, m \in {"", "Username taken"}}
    \cup {Outcome(FALSE, FALSE, 0, Undefined, Undefined, "")}

\* SignUp.handleSubmit from the await of api.post on. An axios response has
\* no message field of its own: response.message is undefined ("").
SignUpHandleResponse(v, o, mounted) ==
  IF o.resolved
  THEN IF o.status = 200 THEN SignUpHandleErrorSuccess(v, o.message, FALSE, mounted)
       ELSE IF o.status = 500 THEN SignUpHandleErrorSuccess(v, "", TRUE, mounted)
       ELSE SignUpHandleErrorSuccess(v, o.message, TRUE, mounted)
  ELSE SignUpHandleErrorSuccess(
         v,
         IF o.hasResponse /\ o.message # "" THEN o.message
         ELSE "An error occurred during signup",
         TRUE, mounted)

\* SignUp.handleChange; confPassword is kept apart from newData.
SignUpHandleChange(name, value) ==
  /\ running /\ route = "/auth/sign-up"
  /\ IF name = "confPassword"
     THEN /\ signUpForm.confirmPassword # value
          /\ signUpForm' = [signUpForm EXCEPT !.confirmPassword = value]
     ELSE /\ signUpForm.newData[name] # value
          /\ signUpForm' = [signUpForm EXCEPT !.newData[name] = value]
  /\ UNCHANGED <<running, route, localStorage, authProvider, loginReturn, loginForm,
                 dashboard, newTask, pending, timers, clock>>

\* SignUp.handleSubmit up to the await of api.post.
SignUpHandleSubmit ==
  /\ running /\ route = "/auth/sign-up"
  /\ IF SignUpInputsMissing(signUpForm.newData, signUpForm.confirmPassword)
     THEN SetView(SignUpHandleErrorSuccess(View, "All Inputs Are Required!", TRUE, TRUE))
     ELSE IF SignUpPasswordsDiffer(signUpForm.newData, signUpForm.confirmPassword)
     THEN SetView(SignUpHandleErrorSuccess(View, "Passwords Do Not Match!", TRUE, TRUE))
     ELSE SetView([View EXCEPT
                     !.pending = Append(@, Request("signup", "form", Null))])
  /\ UNCHANGED <<running, localStorage, authProvider, loginReturn, clock>>

\* The request of a sign-up settles and handleSubmit continues.
SignUpSettle(i, o) ==
  /\ running
  /\ i \in DOMAIN pending /\ pending[i].kind = "signup"
  /\ SetView(SignUpHandleResponse([View EXCEPT !.pending = RemoveAt(@, i)], o, pending[i].live))
  /\ UNCHANGED <<running, localStorage, authProvider, loginReturn, clock>>

\* The Cancel button of the SignUp form.
SignUpCancel ==
  /\ running /\ route = "/auth/sign-up"
  /\ SetView(Navigate(View, "/", authProvider.userId))
  /\ UNCHANGED <<running, localStorage, authProvider, loginReturn, clock>>

\* ------------------------------------------------------ ephemeral task store
\* JSON.stringify of a task list, kept as the JSON text of each field of each
\* task, and JSON.parse of it.
JSONstringifyTasks(tasks) ==
  [t |-> "json",
   items |-> [i \in DOMAIN tasks |->
                [f \in DOMAIN tasks[i] |-> StringOf(JSONstringify(tasks[i][f]))]]]

JSONparseTasks(text) ==
  IF text.t = "null" THEN Null
  ELSE [t |-> "list",
        items |-> [i \in DOMAIN text.items |->
                     [f \in DOMAIN text.items[i] |-> JSONparse(text.items[i][f])]]]

\* JSON.parse(localStorage.getItem(TEMP_TASKS_KEY)) || []
existingTasks(ls) ==
  LET parsed == JSONparseTasks(ls.temp)
  IN IF parsed.t = "null" THEN <<>> ELSE parsed.items

\* The id handleTaskSubmit gives an ephemeral task: Date.now().
NewTaskId(now) == Num(now)

\* { ...taskData, id: Date.now() }
WithId(taskData, id) ==
  [f \in DOMAIN taskData \cup {"id"} |-> IF f = "id" THEN id ELSE taskData[f]]

\* Dashboard's beforeunload listener.
clearTasksOnUnload(ls) == [ls EXCEPT !.temp = Null]

\* The listener is registered while the Dashboard is mounted.
ListenerRegistered == running /\ route = "/"

\* ---------------------------------------------------------------- Dashboard
closeModal(v) == [v EXCEPT !.dashboard.isOpen = FALSE, !.newTask = NewTaskInit]

ServerTask(n) ==
  [title |-> Str(<<"s">>), description |-> Str(<<>>), dueDate |-> Str(<<>>),
   priority |-> Str(chMedium), id |-> Num(n), userId |-> Num(7)]

ServerTasks == {ServerTask(41), ServerTask(42)}

\* The outcomes of POST /tasks: 201 {task}, another 2xx status, a rejection
\* with a response, a rejection without one.
TaskOutcomes ==
  {[resolved |-> TRUE, hasResponse |-> TRUE, status |-> 201, task |-> t] : t \in ServerTasks}
    \cup {[resolved |-> TRUE, hasResponse |-> TRUE, status |-> 200, task |-> Undefined]}
    \cup {[resolved |-> FALSE, hasResponse |-> TRUE, status |-> 500, task |-> Undefined]}
    \cup {[resolved |-> FALSE, hasResponse |-> FALSE, status |-> 0, task |-> Undefined]}

ServerUser(savedTasks) ==
  [username |-> "alice", memberSince |-> "2024", profileIcon |-> "icon.png",
   savedTasks |-> savedTasks]

\* The outcomes of GET /users/me/{userId}; savedTasks may be missing.
ProfileOutcomes ==
  {[resolved |-> TRUE, hasResponse |-> TRUE, status |-> 200, user |-> ServerUser(st)] :
     st \in {Undefined, [t |-> "list", items |-> <<ServerTask(40)>>]}}
    \cup {[resolved |-> TRUE, hasResponse |-> TRUE, status |-> 204, user |-> Undefined]}
    \cup {[resolved |-> FALSE, hasResponse |-> TRUE, status |-> 500, user |-> Undefined]}
    \cup {[resolved |-> FALSE, hasResponse |-> FALSE, status |-> 0, user |-> Undefined]}

\* handleTaskSubmit's message when its try block throws.
FailureMessage(userId) ==
  [text |-> IF Truthy(userId) THEN "Failed to create task. Please try again."
            ELSE "Failed to save task locally",
   isError |-> TRUE]

\* saveTemporarily keeping only the new task in the persisted list.
saveTemporarilyOverwriting(v, ls, taskData, now) ==
  LET newTaskItem == WithId(taskData, NewTaskId(now))
      updatedTasks == <<newTaskItem>>
  IN [localStorage |-> [ls EXCEPT !.temp = JSONstringifyTasks(updatedTasks)],
      view |-> [v EXCEPT !.dashboard.message = [text |-> "Task saved temporarily!", isError |-> FALSE],
                         !.dashboard.userData.tasks = updatedTasks,
                         !.timers = Append(@, Timer("taskDone", 3000))]]

\* handleTaskSubmit, the branch of a session without userId: the task is
\* appended to the list persisted under TEMP_TASKS_KEY.
saveTemporarily(v, ls, taskData, now) ==
  LET newTaskItem == WithId(taskData, NewTaskId(now))
      updatedTasks == Append(existingTasks(ls), newTaskItem)
  IN [localStorage |-> [ls EXCEPT !.temp = JSONstringifyTasks(updatedTasks)],
      view |-> [v EXCEPT !.dashboard.message = [text |-> "Task saved temporarily!", isError |-> FALSE],
                         !.dashboard.userData.tasks = updatedTasks,
                         !.timers = Append(@, Timer("taskDone", 3000))]]

\* taskSettled putting the created task at the head of the list.
taskSettledPrepending(v, o, req) ==
  IF o.resolved
  THEN LET v1 == IF o.status = 201 /\ req.live
                 THEN [v EXCEPT !.dashboard.message =
                                   [text |-> "Task created successfully!", isError |-> FALSE],
                                !.dashboard.userData.tasks = <<o.task>> \o @]
                 ELSE v
       IN [v1 EXCEPT !.timers = Append(@, [Timer("taskDone", 3000) EXCEPT !.live = req.live])]
  ELSE LET v1 == IF req.live
                 THEN [v EXCEPT !.dashboard.message = FailureMessage(req.userId)]
                 ELSE v
       IN [v1 EXCEPT !.timers = Append(@, [Timer("taskFail", 3000) EXCEPT !.live = req.live])]

\* handleTaskSubmit from the await of api.post on.
taskSettled(v, o, req) ==
  IF o.resolved
  THEN LET v1 == IF o.status = 201 /\ req.live
                 THEN [v EXCEPT !.dashboard.message =
                                   [text |-> "Task created successfully!", isError |-> FALSE],
                                !.dashboard.userData.tasks = Append(@, o.task)]
                 ELSE v
       IN [v1 EXCEPT !.timers = Append(@, [Timer("taskDone", 3000) EXCEPT !.live = req.live])]
  ELSE LET v1 == IF req.live
                 THEN [v EXCEPT !.dashboard.message = FailureMessage(req.userId)]
                 ELSE v
       IN [v1 EXCEPT !.timers = Append(@, [Timer("taskFail", 3000) EXCEPT !.live = req.live])]

\* loadData from the await of api.get on.
profileSettled(v, o, req) ==
  IF ~req.live THEN v
  ELSE IF o.resolved
  THEN IF o.status = 200
       THEN [v EXCEPT !.dashboard.userData =
                         [username |-> o.user.username,
                          memberSince |-> o.user.memberSince,
                          profileImage |-> o.user.profileIcon,
                          tasks |-> IF o.user.savedTasks.t = "list"
                                    THEN o.user.savedTasks.items ELSE <<>>]]
       ELSE v
  ELSE [v EXCEPT !.dashboard.userData = PlaceholderProfile(@)]

DashboardMounted == running /\ route = "/"

\* The Sign Up and Login links of the Header, shown when there is no userId.
HeaderLink(r) ==
  /\ DashboardMounted
  /\ ~Truthy(authProvider.userId)
  /\ r \in {"/auth/sign-up", "/auth/login"}
  /\ SetView(Navigate(View, r, authProvider.userId))
  /\ UNCHANGED <<running, localStorage, authProvider, loginReturn, clock>>

\* The New Task button.
OpenModal ==
  /\ DashboardMounted /\ ~dashboard.isOpen
  /\ dashboard' = [dashboard EXCEPT !.isOpen = TRUE]
  /\ UNCHANGED <<running, route, localStorage, authProvider, loginReturn, loginForm,
                 signUpForm, newTask, pending, timers, clock>>

\* The popup closes on a click outside it.
PopupClose ==
  /\ DashboardMounted /\ dashboard.isOpen
  /\ SetView(closeModal(View))
  /\ UNCHANGED <<running, localStorage, authProvider, loginReturn, clock>>

\* NewTask.handleChange
NewTaskHandleChange(name, value) ==
  /\ DashboardMounted /\ dashboard.isOpen
  /\ newTask.taskData[name] # value
  /\ newTask' = [newTask EXCEPT !.taskData[name] = value]
  /\ UNCHANGED <<running, route, localStorage, authProvider, loginReturn, loginForm,
                 signUpForm, dashboard, pending, timers, clock>>

\* handleTaskSubmit up to its await (or to its end, when it does not await).
handleTaskSubmit(taskData) ==
  /\ DashboardMounted /\ dashboard.isOpen
  /\ IF taskData.t = "null"
     THEN /\ SetView(closeModal(View))
          /\ UNCHANGED localStorage
     ELSE IF Truthy(authProvider.userId)
     THEN /\ SetView([View EXCEPT
                        !.pending = Append(@, Request("task", "dashboard", authProvider.userId))])
          /\ UNCHANGED localStorage
     ELSE LET r == saveTemporarily(View, localStorage, taskData.v, clock)
          IN /\ Len(r.view.dashboard.userData.tasks) <= MaxTasks
             /\ localStorage' = r.localStorage
             /\ SetView(r.view)
  /\ UNCHANGED <<running, authProvider, loginReturn, clock>>

\* NewTask.handleSubmit: the form submits once the required title is filled in.
NewTaskHandleSubmit ==
  /\ newTask.taskData.title # Str(<<>>)
  /\ handleTaskSubmit(Obj(newTask.taskData))

\* The Cancel button of NewTask: onSubmit(null).
NewTaskCancel == handleTaskSubmit(Null)

\* The create request settles and handleTaskSubmit continues.
TaskSettle(i, o) ==
  /\ running
  /\ i \in DOMAIN pending /\ pending[i].kind = "task"
  /\ LET v == taskSettled([View EXCEPT !.pending = RemoveAt(@, i)], o, pending[i])
     IN /\ Len(v.dashboard.userData.tasks) <= MaxTasks
        /\ SetView(v)
  /\ UNCHANGED <<running, localStorage, authProvider, loginReturn, clock>>

\* The profile request settles and loadData continues.
ProfileSettle(i, o) ==
  /\ running
  /\ i \in DOMAIN pending /\ pending[i].kind = "profile"
  /\ SetView(profileSettled([View EXCEPT !.pending = RemoveAt(@, i)], o, pending[i]))
  /\ UNCHANGED <<running, localStorage, authProvider, loginReturn, clock>>

\* ------------------------------------------------------------------- timers
\* The callback of a timer, by the setTimeout that set it.
timerCallback(v, tm, userId) ==
  CASE tm.kind = "loginSuccess" ->
         Navigate(IF tm.live
                  THEN [v EXCEPT !.loginForm.isSuccess = FALSE, !.loginForm.resultText = ""]
                  ELSE v,
                  "/", userId)
    [] tm.kind = "loginError" ->
         IF tm.live
         THEN [v EXCEPT !.loginForm.isError = FALSE, !.loginForm.resultText = ""]
         ELSE v
    [] tm.kind = "signUpSuccess" ->
         Navigate(IF tm.live
                  THEN [v EXCEPT !.signUpForm.isSuccess = FALSE, !.signUpForm.resultText = ""]
                  ELSE v,
                  "/auth/login", userId)
    [] tm.kind = "signUpError" ->
         IF tm.live
         THEN [v EXCEPT !.signUpForm.isError = FALSE, !.signUpForm.resultText = ""]
         ELSE v
    [] tm.kind = "taskDone" ->
         IF tm.live THEN [closeModal(v) EXCEPT !.dashboard.message = NoMessage] ELSE v
    [] tm.kind = "taskFail" ->
         IF tm.live THEN [v EXCEPT !.dashboard.message = NoMessage] ELSE v

\* A timer may fire once time has passed since it was set, and not before a
\* timer set earlier with a delay no longer than its own.
MayFire(i) ==
  /\ i \in DOMAIN timers
  /\ clock > timers[i].at
  /\ \A j \in 1..(i - 1) : timers[j].delay > timers[i].delay

TimerFire(i) ==
  /\ running
  /\ MayFire(i)
  /\ SetView(timerCallback([View EXCEPT !.timers = RemoveAt(@, i)], timers[i],
                           authProvider.userId))
  /\ UNCHANGED <<running, localStorage, authProvider, loginReturn, clock>>

\* Time passes: Date.now() reads a later value.
Tick ==
  /\ clock < MaxClock
  /\ clock' = clock + 1
  /\ UNCHANGED <<running, route, localStorage, authProvider, loginReturn, loginForm,
                 signUpForm, dashboard, newTask, pending, timers>>

\* ---------------------------------------------------------------- lifecycle
EmptyView(r) ==
  [route |-> r, loginForm |-> LoginInit, signUpForm |-> SignUpInit,
   dashboard |-> DashboardInit, newTask |-> NewTaskInit, pending |-> <<>>, timers |-> <<>>]

\* The page loads at route r: every component mounts with its initial state and
\* the effects run, the Dashboard's before the AuthProvider's; the Dashboard's
\* runs again when the rehydration changed userId.
AppLoad(r) ==
  /\ ~running
  /\ r \in Routes
  /\ LET v1 == IF r = "/" THEN loadData(EmptyView(r), AuthProviderInit.userId) ELSE EmptyView(r)
         auth == getData(localStorage, AuthProviderInit)
     IN /\ authProvider' = auth
        /\ SetView(UserIdChanged(v1, AuthProviderInit.userId, auth.userId))
  /\ running' = TRUE
  /\ loginReturn' = NoReturn
  /\ UNCHANGED <<localStorage, clock>>

\* The page unloads (closed or reloaded): beforeunload is dispatched to the
\* registered listeners, then everything in memory is gone.
BeforeUnload ==
  /\ running
  /\ localStorage' = IF ListenerRegistered THEN clearTasksOnUnload(localStorage)
                     ELSE localStorage
  /\ running' = FALSE
  /\ authProvider' = AuthProviderInit
  /\ loginReturn' = NoReturn
  /\ SetView(EmptyView("/"))
  /\ UNCHANGED clock

\* ------------------------------------------------------------ specification
Titles == {Str(<<"a">>), Str(<<"\"">>)}

\* A task left in the store by an earlier page that ended without unloading.
StaleTask ==
  [title |-> Str(<<"o">>), description |-> Str(<<>>), dueDate |-> Str(<<>>),
   priority |-> Str(chHigh), id |-> Num(0)]

\* What localStorage may hold when the page loads: any of the two session keys,
\* and the stale task or nothing under TEMP_TASKS_KEY.
Stores(userIds, tokens, temps) == [userId : userIds, token : tokens, temp : temps]

AnySession == Stores({Null, Str(<<"7">>)}, {Null, Str(<<"t">>)}, {Null})
NoStore == Stores({Null}, {Null}, {Null})
AnyTasks ==
  Stores({Null}, {Null}, {Null, JSONstringifyTasks(<<StaleTask>>)})
    \cup Stores({Str(<<"7">>)}, {Str(<<"t">>)}, {Null, JSONstringifyTasks(<<StaleTask>>)})

\* Before the page loads for the first time.
InitWith(stores) ==
  /\ running = FALSE
  /\ route = "/"
  /\ localStorage \in stores
  /\ authProvider = AuthProviderInit
  /\ loginReturn = NoReturn
  /\ loginForm = LoginInit
  /\ signUpForm = SignUpInit
  /\ dashboard = DashboardInit
  /\ newTask = NewTaskInit
  /\ pending = <<>>
  /\ timers = <<>>
  /\ clock = 1

\* The steps of each part of the application, over the inputs given.
LifecycleSteps(routes) ==
  \/ \E r \in routes : AppLoad(r)
  \/ BeforeUnload

TimeSteps ==
  \/ Tick
  \/ \E i \in 1..MaxTimers : TimerFire(i)

ContextSteps ==
  \/ \E postData \in {Null, Obj([username |-> <<"a">>, password |-> <<"b">>])} :
       CallLogin(postData)
  \/ CallLogout

DashboardSteps(titles, taskOutcomes, profileOutcomes) ==
  \/ OpenModal
  \/ PopupClose
  \/ \E x \in titles : NewTaskHandleChange("title", x)
  \/ NewTaskHandleSubmit
  \/ NewTaskCancel
  \/ \E i \in 1..MaxPending, o \in taskOutcomes : TaskSettle(i, o)
  \/ \E i \in 1..MaxPending, o \in profileOutcomes : ProfileSettle(i, o)

\* What the user types into the Login form and into the SignUp form.
LoginInputs == [username |-> {<<" ">>, <<"a">>}, password |-> {<<" ">>, <<"a">>}]

SignUpInputs ==
  [username |-> {<<" ">>, <<"a">>}, email |-> {<<" ">>, <<"a">>},
   password |-> {<<" ">>, <<"a">>}, confPassword |-> {<<"a">>, <<"b">>}]

\* At most MaxFormPending requests and MaxFormTimers timers at once.
FormBound == Len(pending') <= MaxFormPending /\ Len(timers') <= MaxFormTimers

\* The session manager, called by consumers of the context.
NextSession ==
  \/ LifecycleSteps({"/auth/login"})
  \/ ContextSteps
  \/ \E i \in 1..MaxPending, o \in LoginOutcomes : LoginSettle(i, o)

SpecSession == InitWith(AnySession) /\ [][NextSession]_vars

\* The Login form and the SignUp form.
NextForms ==
  \/ LifecycleSteps({"/auth/login", "/auth/sign-up"})
  \/ TimeSteps
  \/ \E n \in DOMAIN LoginInputs : \E x \in LoginInputs[n] : LoginHandleChange(n, x)
  \/ LoginHandleSubmit /\ FormBound
  \/ \E i \in 1..MaxPending, o \in LoginOutcomesWellFormed : LoginSettle(i, o) /\ FormBound
  \/ \E n \in DOMAIN SignUpInputs : \E x \in SignUpInputs[n] : SignUpHandleChange(n, x)
  \/ SignUpHandleSubmit /\ FormBound
  \/ \E i \in 1..MaxPending, o \in SignUpOutcomes : SignUpSettle(i, o) /\ FormBound

SpecForms == InitWith(NoStore) /\ [][NextForms]_vars

\* The Dashboard and its NewTask popup.
NextDash ==
  \/ LifecycleSteps({"/"})
  \/ TimeSteps
  \/ DashboardSteps(Titles, TaskOutcomes, ProfileOutcomes)

SpecDash == InitWith(AnyTasks) /\ [][NextDash]_vars

\* What the user types, where the whole application is checked.
FilledIn == {<<"a">>}

\* The whole application, driven through its user interface.
Next ==
  \/ \E r \in Routes : AppLoad(r)
  \/ BeforeUnload
  \/ Tick
  \/ \E i \in 1..MaxTimers : TimerFire(i) /\ FormBound
  \/ \E r \in Routes : HeaderLink(r) /\ FormBound
  \/ LoginCancel /\ FormBound
  \/ SignUpCancel /\ FormBound
  \/ \E n \in {"username", "password"}, x \in FilledIn : LoginHandleChange(n, x)
  \/ LoginHandleSubmit /\ FormBound
  \/ \E i \in 1..MaxPending, o \in LoginOutcomesWellFormed : LoginSettle(i, o) /\ FormBound
  \/ \E n \in {"username", "email", "password", "confPassword"}, x \in FilledIn :
       SignUpHandleChange(n, x)
  \/ SignUpHandleSubmit /\ FormBound
  \/ \E i \in 1..MaxPending, o \in SignUpOutcomes : SignUpSettle(i, o) /\ FormBound
  \/ OpenModal
  \/ PopupClose
  \/ NewTaskHandleChange("title", Str(<<"a">>))
  \/ NewTaskHandleSubmit /\ FormBound
  \/ NewTaskCancel
  \/ \E i \in 1..MaxPending, o \in TaskOutcomes : TaskSettle(i, o) /\ FormBound
  \/ \E i \in 1..MaxPending, o \in ProfileOutcomes : ProfileSettle(i, o)

Spec == InitWith(AnyTasks) /\ [][Next]_vars

\* ------------------------------------------------------------------ claims
\* userId and token of the in-memory session are both present or both absent.
SessionPaired == Truthy(authProvider.userId) <=> Truthy(authProvider.token)

\* C1: whenever login returns to the mounted Login form, the form shows a
\* success message (isSuccess set, isError not set) and has the redirect to
\* "/" scheduled when the status is 200, and shows an error message otherwise.
C1_LoginResultShown ==
  [][\A i \in 1..MaxPending, o \in LoginOutcomesWellFormed :
       (LoginSettle(i, o) /\ pending[i].caller = "form" /\ pending[i].live)
         => IF loginReturn'.status = 200
            THEN /\ loginForm'.isSuccess /\ ~loginForm'.isError
                 /\ \E k \in DOMAIN timers' : timers'[k].kind = "loginSuccess"
            ELSE loginForm'.isError /\ ~loginForm'.isSuccess]_vars

\* C2, as claimed: in every reachable state the in-memory userId and token are
\* both present or both absent, whatever the server responds.
C2_SessionPairedAlways == SessionPaired

\* C2, amended: no step other than a login whose 200 response lacks the userId
\* or the token leads from a paired session to an unpaired one (the session is
\* paired after construction).
C2_SessionPairedUnlessMalformed ==
  [][(SessionPaired /\ ~(\E i \in 1..MaxPending, o \in LoginOutcomesMalformed : LoginSettle(i, o)))
       => SessionPaired']_vars

C2_Witness ==
  /\ loginReturn.status = 200
  /\ Truthy(authProvider.userId) /\ Truthy(authProvider.token)

\* C3: a login whose request ends with a status other than 200 or with a
\* network failure returns a failure result with a status and a message and
\* leaves localStorage and the in-memory session as they were; a login with
\* absent credentials returns a failure result, sends no request and changes
\* nothing.
C3_FailedLoginChangesNothing ==
  [][/\ \A i \in 1..MaxPending, o \in LoginOutcomes :
          (LoginSettle(i, o) /\ ~(o.resolved /\ o.status = 200))
            => /\ loginReturn'.status \notin {0, 200}
               /\ loginReturn'.message # ""
               /\ localStorage' = localStorage
               /\ authProvider' = authProvider
     /\ CallLogin(Null)
          => /\ loginReturn'.status \notin {0, 200}
             /\ loginReturn'.message # ""
             /\ pending' = pending
             /\ localStorage' = localStorage
             /\ authProvider' = authProvider]_vars

C3_Witness ==
  /\ loginReturn.status = 401
  /\ loginReturn.message = "Invalid credentials"
  /\ Truthy(authProvider.userId)

\* A field with nothing but white space in it.
IsBlank(s) == \A k \in DOMAIN s : s[k] = " "

ValidationMessages == {"All Inputs Are Required!", "Passwords Do Not Match!"}

\* C4: a Login submission with a blank username or password, and a SignUp
\* submission with an empty username, email, password or confirmation or with
\* a password other than the confirmation, issues no request and shows a
\* validation error.
C4_InvalidInputsNoRequest ==
  [][/\ (/\ LoginHandleSubmit
         /\ \/ IsBlank(loginForm.loginData.username)
            \/ IsBlank(loginForm.loginData.password))
          => /\ pending' = pending
             /\ loginForm'.isError
             /\ loginForm'.resultText \in ValidationMessages
     /\ (/\ SignUpHandleSubmit
         /\ \/ signUpForm.newData.username = <<>>
            \/ signUpForm.newData.email = <<>>
            \/ signUpForm.newData.password = <<>>
            \/ signUpForm.confirmPassword = <<>>
            \/ signUpForm.newData.password # signUpForm.confirmPassword)
          => /\ pending' = pending
             /\ signUpForm'.isError
             /\ signUpForm'.resultText \in ValidationMessages]_vars

C4_Witness ==
  /\ route = "/auth/sign-up"
  /\ signUpForm.newData.password = <<"a">> /\ signUpForm.confirmPassword = <<"b">>
  /\ signUpForm.isError /\ signUpForm.resultText = "Passwords Do Not Match!"
  /\ pending = <<>>

\* The tasks persisted under TEMP_TASKS_KEY and the in-memory task list.
PersistedTasks == existingTasks(localStorage)
MemoryTasks == dashboard.userData.tasks

\* C5: whenever the create request of a submission by the mounted Dashboard
\* returns status 201, the in-memory task list becomes the previous list with
\* the server-returned task appended at its end, localStorage is not written,
\* and the message becomes "Task created successfully!" with isError false.
C5_CreatedTaskAppended ==
  [][\A i \in DOMAIN pending, t \in ServerTasks :
       LET o == [resolved |-> TRUE, hasResponse |-> TRUE, status |-> 201, task |-> t]
       IN (pending[i].live /\ TaskSettle(i, o))
         => /\ Truthy(pending[i].userId)
            /\ dashboard'.userData.tasks = Append(MemoryTasks, o.task)
            /\ Len(dashboard'.userData.tasks) = Len(MemoryTasks) + 1
            /\ localStorage' = localStorage
            /\ dashboard'.message = [text |-> "Task created successfully!", isError |-> FALSE]]_vars

C5_Witness ==
  /\ Truthy(authProvider.userId)
  /\ dashboard.message = [text |-> "Task created successfully!", isError |-> FALSE]
  /\ MemoryTasks = <<ServerTask(40), ServerTask(41)>>

\* C6: whenever the create request of a submission by the mounted Dashboard
\* ends with a status other than 201 or with a thrown error, the message
\* becomes "Failed to create task. Please try again." with isError true and
\* the in-memory task list is unchanged.
C6_FailedCreateReported ==
  [][\A i \in 1..MaxPending, o \in TaskOutcomes :
       (TaskSettle(i, o) /\ pending[i].live /\ ~(o.resolved /\ o.status = 201))
         => /\ dashboard'.message =
                 [text |-> "Failed to create task. Please try again.", isError |-> TRUE]
            /\ dashboard'.userData.tasks = MemoryTasks]_vars

\* C7: whenever a draft is submitted in a session without userId, no request
\* is issued, the persisted list becomes the previously persisted list with
\* one element appended, that element has a numeric id and the draft's fields,
\* the in-memory task list equals the persisted list, and the message becomes
\* "Task saved temporarily!" with isError false.
C7_AnonymousTaskPersisted ==
  [][(NewTaskHandleSubmit /\ ~Truthy(authProvider.userId))
       => LET before == PersistedTasks
              after == existingTasks(localStorage')
          IN /\ pending' = pending
             /\ Len(after) = Len(before) + 1
             /\ SubSeq(after, 1, Len(before)) = before
             /\ DOMAIN after[Len(after)] = DOMAIN newTask.taskData \cup {"id"}
             /\ after[Len(after)].id.t = "num"
             /\ \A f \in DOMAIN newTask.taskData : after[Len(after)][f] = newTask.taskData[f]
             /\ dashboard'.userData.tasks = after
             /\ dashboard'.message = [text |-> "Task saved temporarily!", isError |-> FALSE]]_vars

C7_Witness ==
  /\ ~Truthy(authProvider.userId)
  /\ dashboard.message = [text |-> "Task saved temporarily!", isError |-> FALSE]
  /\ Len(PersistedTasks) = 2
  /\ PersistedTasks[1] = StaleTask
  /\ PersistedTasks[2].title = Str(<<"\"">>)
  /\ MemoryTasks = PersistedTasks

\* No two tasks of a list have the same id.
UniqueIds(tasks) ==
  \A j, k \in DOMAIN tasks : tasks[j].id = tasks[k].id => j = k

\* C8: in every reachable state no two tasks of the persisted list have the
\* same id, and in a session without userId no two tasks of the in-memory
\* list have the same id.
C8_EphemeralIdsUnique ==
  /\ UniqueIds(PersistedTasks)
  /\ ~Truthy(authProvider.userId) => UniqueIds(MemoryTasks)

\* C9: every unload of the page, whatever the route shown and whether or not
\* there is a session, leaves nothing under TEMP_TASKS_KEY.
C9_UnloadPurgesStore ==
  [][BeforeUnload => localStorage'.temp = Null]_vars

\* C10: whenever the profile request of the mounted Dashboard ends with a
\* thrown error or with a status other than 200, the profile shown becomes the
\* placeholder with an empty task list; whenever the Dashboard is shown in a
\* session without userId, the profile is the placeholder and no profile
\* request is issued.
C10_ProfileFailureShowsPlaceholder ==
  [][/\ \A i \in 1..MaxPending, o \in ProfileOutcomes :
          (ProfileSettle(i, o) /\ pending[i].live /\ ~(o.resolved /\ o.status = 200))
            => dashboard'.userData = PlaceholderProfile(DashboardInit.userData)
     /\ ((~running \/ route # "/") /\ running' /\ route' = "/" /\ ~Truthy(authProvider'.userId))
          => /\ dashboard'.userData = PlaceholderProfile(DashboardInit.userData)
             /\ \A k \in DOMAIN pending' : pending'[k].kind # "profile" \/ ~pending'[k].live]_vars

\* C11: the task that was under TEMP_TASKS_KEY before the page loaded (no
\* submission of the session creates a task equal to it) is in no reachable
\* state an element of the in-memory task list.
C11_StaleTaskNeverInMemory ==
  \A k \in DOMAIN MemoryTasks : MemoryTasks[k] # StaleTask

\* The timer set last among those pending, and whether a timer was set
\* together with a message: the catch of handleTaskSubmit always sets one, and
\* so does every submission of a session without userId.
LastTimer == timers[Len(timers)]

ScheduledWithMessage(tm) ==
  /\ tm.live
  /\ \/ tm.kind = "taskFail"
     \/ tm.kind = "taskDone" /\ ~Truthy(authProvider.userId)

\* C12: while the timer of a later message of the task flow is pending, the
\* firing of a timer set before it leaves the displayed message as it is.
C12_StaleTimerKeepsMessage ==
  [][\A i \in DOMAIN timers :
       (TimerFire(i) /\ i < Len(timers) /\ ScheduledWithMessage(LastTimer))
         => dashboard'.message = dashboard.message]_vars

\* The create requests the mounted Dashboard is awaiting.
SubmissionsInFlight ==
  {i \in DOMAIN pending : pending[i].kind = "task" /\ pending[i].live}

\* C13: in every reachable state at most one create request is awaited, and
\* a submission made while one is awaited issues no request.
C13_OneSubmissionInFlight ==
  \A i, j \in SubmissionsInFlight : i = j

\* What login leaves under the key "userId" for the userId u.
PersistedUserId(u) == Str(StringOf(JSONstringify(u)))

\* C14: in every reachable state where the page runs with a session in
\* memory, the in-memory userId is the one login persisted: the store holds
\* the persisted form of it, after the login and after every later reload.
C14_UserIdRoundTrip ==
  (running /\ Truthy(authProvider.userId))
    => localStorage.userId = PersistedUserId(authProvider.userId)

\* C15: whenever the profile request of the mounted Dashboard ends with
\* status 200, every task a 201 response added to the in-memory list while
\* that request was awaited is still in the list afterwards.
C15_CreatedTaskSurvivesProfile ==
  [][\A i \in DOMAIN pending, o \in ProfileOutcomes :
       (pending[i].live /\ o.resolved /\ o.status = 200 /\ ProfileSettle(i, o))
         => \A k \in DOMAIN MemoryTasks :
              MemoryTasks[k] \in ServerTasks
                => \E m \in DOMAIN dashboard'.userData.tasks :
                     dashboard'.userData.tasks[m] = MemoryTasks[k]]_vars

====
